---- MODULE Spec2Model ----
(***************************************************************************)
(* Model of contracts/commitment_core/src/lib.rs (CommitmentCoreContract). *)
(*                                                                         *)
(* The contract keeps its state in the host's key-value store:             *)
(*   instance tier  : DataKey::Admin, DataKey::InitFlag,                   *)
(*                    DataKey::AuthorizedAllocator(addr)                   *)
(*   persistent tier: DataKey::Commitment(id)   (read by allocate and      *)
(*                                               deallocate)               *)
(*                    ("Commit", id)            (read by check_violations  *)
(*                                               and get_violation_details)*)
(*                    DataKey::CommitmentBalance(id)                       *)
(*                    DataKey::AllocationTracking(id)                      *)
(* Every public function runs as one transaction: a panic anywhere in it   *)
(* rolls every write of the call back, so a failing call is an action      *)
(* that changes nothing but the recorded outcome `ret`.                    *)
(*                                                                         *)
(* lib.rs holds two definitions of initialize and of allocate; the         *)
(* implemented ones (lines 232 and 408) are modelled, the empty ones       *)
(* (lines 260 and 529) are not.  create_commitment, update_value, settle   *)
(* and early_exit have bodies made of TODO comments only and are modelled  *)
(* as what those bodies do: nothing.  No function of the contract writes a *)
(* Commitment record, so records enter the two stores the way tests.rs     *)
(* puts them there: by a direct write of the storage key.                  *)
(***************************************************************************)
EXTENDS Integers, Sequences, FiniteSets, TLC

VARIABLES admin, initialized, allocators, commitments, commits, balance,
          tracking, now, ret, net, exited

vars == <<admin, initialized, allocators, commitments, commits, balance,
          tracking, now, ret, net, exited>>

(* ------------------------------ bounds -------------------------------- *)
MaxTime == 1        \* the ledger clock (in days) runs 0..MaxTime
MaxAllocs == 2      \* longest allocations sequence explored
MaxBalance == 1     \* largest free balance explored
MaxAmount == 1      \* largest amount passed to allocate / deallocate
MaxTimeV == 3       \* clock range of the violation-engine specification

Ids == {"c1"}
FrameIds == {"c1", "c2"}    \* the ids of the two-commitment specification
Addr == {"a1", "a2"}
AllocatorInputs == {"a2"}   \* principals passed to add / remove_authorized_allocator
Pools == {"p1"}
Amounts == (-1) .. MaxAmount
UnitAmounts == {-1, 0, 1}   \* the amounts Spec passes to allocate / deallocate
NoAdmin == "none"
Statuses == {"active", "settled", "violated", "early_exit"}
Terminal == {"settled", "violated", "early_exit"}

(* ------------------------- records of lib.rs -------------------------- *)
CommitmentRules(duration_days, max_loss_percent, early_exit_penalty) ==
    [duration_days |-> duration_days,
     max_loss_percent |-> max_loss_percent,
     commitment_type |-> "balanced",
     early_exit_penalty |-> early_exit_penalty,
     min_fee_threshold |-> 1000]

Commitment(id, owner, rules, amount, created_at, expires_at, current_value, status) ==
    [commitment_id |-> id,
     owner |-> owner,
     nft_token_id |-> 1,
     rules |-> rules,
     amount |-> amount,
     asset_address |-> "asset",
     created_at |-> created_at,
     expires_at |-> expires_at,
     current_value |-> current_value,
     status |-> status]

Allocation(id, pool, amount, timestamp) ==
    [commitment_id |-> id, target_pool |-> pool, amount |-> amount,
     timestamp |-> timestamp]

AllocationTracking(total, allocs) ==
    [total_allocated |-> total, allocations |-> allocs]

(* ------------------------- storage helpers ---------------------------- *)
Put_replaces(store, key, val) == [k \in {key} |-> val]

Put(store, key, val) ==
    [k \in (DOMAIN store) \cup {key} |-> IF k = key THEN val ELSE store[k]]

has_admin == admin # NoAdmin

is_initialized_flag_lost == FALSE

is_initialized == initialized

is_authorized_allocator_has_only(a) == allocators[a] # "absent"

is_authorized_allocator(a) ==
    IF allocators[a] # "absent" THEN allocators[a] = "true" ELSE FALSE

set_authorized_allocator_always(a, authorized) ==
    allocators' = [allocators EXCEPT ![a] = "true"]

set_authorized_allocator(a, authorized) ==
    allocators' = [allocators EXCEPT ![a] = IF authorized THEN "true" ELSE "false"]

get_commitment(id) == id \in DOMAIN commitments

read_commitment(id) == id \in DOMAIN commits

has_commitment(id) == id \in DOMAIN commits

get_commitment_balance(id) ==
    IF id \in DOMAIN balance THEN balance[id] ELSE 0

set_commitment_balance(id, b) == balance' = Put(balance, id, b)

get_allocation_tracking(id) ==
    IF id \in DOMAIN tracking THEN tracking[id]
    ELSE AllocationTracking(0, <<>>)

set_allocation_tracking(id, t) == tracking' = Put(tracking, id, t)

(* ------------------------- recorded outcome --------------------------- *)
NoDetails ==
    [has_violations |-> FALSE, loss_violated |-> FALSE,
     duration_violated |-> FALSE, loss_percent |-> 0, time_remaining |-> 0]

\* rules: the CommitmentRules argument of create_commitment
NoRules == CommitmentRules(0, 0, 0)

\* free balance and total_allocated at the start of the last successful allocate
NoBefore == [set |-> FALSE, balance |-> 0, total |-> 0]

\* track: the AllocationTracking value returned by get_allocation_tracking
NoTracking == AllocationTracking(0, <<>>)

\* transfer: "none" when the call made no asset transfer, else "done" / "failed"
\* auth: whether the invocation carried the authorization the call asks for
Ret(op, id, caller, pool, amount, result) ==
    [op |-> op, id |-> id, caller |-> caller, pool |-> pool,
     amount |-> amount, result |-> result, flag |-> FALSE,
     details |-> NoDetails, transfer |-> "none", auth |-> FALSE,
     before |-> NoBefore, rules |-> NoRules, track |-> NoTracking]

RetFlag(op, id, result, flag) ==
    [Ret(op, id, "-", "-", 0, result) EXCEPT !.flag = flag]

RetDetails(op, id, result, details) ==
    [Ret(op, id, "-", "-", 0, result) EXCEPT !.details = details]

(* ------------------------------ Init ---------------------------------- *)
Init ==
    /\ admin = NoAdmin
    /\ initialized = FALSE
    /\ allocators = [a \in Addr |-> "absent"]
    /\ commitments = <<>>
    /\ commits = <<>>
    /\ balance = <<>>
    /\ tracking = <<>>
    /\ now = 0
    /\ ret = Ret("init", "-", "-", "-", 0, "ok")
    /\ net = [i \in Ids |-> 0]
    /\ exited = [i \in Ids |-> FALSE]

\* the same empty storage, with history counters for two ids
InitF ==
    /\ admin = NoAdmin
    /\ initialized = FALSE
    /\ allocators = [a \in Addr |-> "absent"]
    /\ commitments = <<>>
    /\ commits = <<>>
    /\ balance = <<>>
    /\ tracking = <<>>
    /\ now = 0
    /\ ret = Ret("init", "-", "-", "-", 0, "ok")
    /\ net = [i \in FrameIds |-> 0]
    /\ exited = [i \in FrameIds |-> FALSE]

(* ------------------------------ Registry ------------------------------ *)
initialize(a) ==
    IF is_initialized
    THEN /\ ret' = Ret("initialize", "-", a, "-", 0, "AlreadyInitialized")
         /\ UNCHANGED <<admin, initialized, allocators, commitments, commits,
                        balance, tracking, now, net, exited>>
    ELSE /\ admin' = a
         /\ initialized' = TRUE
         /\ ret' = Ret("initialize", "-", a, "-", 0, "ok")
         /\ UNCHANGED <<allocators, commitments, commits, balance, tracking,
                        now, net, exited>>

SetAllocator_unproven(op, allocator, admin_auth, authorized) ==
    LET result == IF ~has_admin THEN "Panic" ELSE "ok"
    IN /\ ret' = [Ret(op, "-", allocator, "-", 0, result) EXCEPT !.auth = admin_auth]
       /\ IF result = "ok"
          THEN set_authorized_allocator(allocator, authorized)
          ELSE UNCHANGED allocators
       /\ UNCHANGED <<admin, initialized, commitments, commits, balance,
                      tracking, now, net, exited>>

\* admin_auth: whether the invocation carries the stored admin's authorization
SetAllocator(op, allocator, admin_auth, authorized) ==
    LET result == IF ~has_admin THEN "Panic"
                  ELSE IF ~admin_auth THEN "AuthError"
                  ELSE "ok"
    IN /\ ret' = [Ret(op, "-", allocator, "-", 0, result) EXCEPT !.auth = admin_auth]
       /\ IF result = "ok"
          THEN set_authorized_allocator(allocator, authorized)
          ELSE UNCHANGED allocators
       /\ UNCHANGED <<admin, initialized, commitments, commits, balance,
                      tracking, now, net, exited>>

add_authorized_allocator(allocator, admin_auth) ==
    SetAllocator("add_authorized_allocator", allocator, admin_auth, TRUE)

remove_authorized_allocator(allocator, admin_auth) ==
    SetAllocator("remove_authorized_allocator", allocator, admin_auth, FALSE)

\* pub fn is_authorized_allocator: the read of the allow-list
is_authorized_allocator_call(a) ==
    /\ ret' = [RetFlag("is_authorized_allocator", "-", "ok",
                       is_authorized_allocator(a)) EXCEPT !.caller = a]
    /\ UNCHANGED <<admin, initialized, allocators, commitments, commits,
                   balance, tracking, now, net, exited>>

(* --------------------------- Commitment Store ------------------------- *)
CreateOwners == {"a1"}
CreateAmounts == {0, 1}
CreateRules ==
    {CommitmentRules(1, 10, 10), CommitmentRules(0, 10, 10),
     CommitmentRules(1, 101, 10)}

\* the body is TODO comments and the return of a fixed string
create_commitment(owner, amount, rules) ==
    /\ ret' = [Ret("create_commitment", "commitment_id_placeholder", owner,
                   "-", amount, "ok") EXCEPT !.rules = rules]
    /\ UNCHANGED <<admin, initialized, allocators, commitments, commits,
                   balance, tracking, now, net, exited>>

\* pub fn get_commitment is left with both sides of a merge:
\*   "option": -> Option<Commitment>, get_commitment(&e, &id), the
\*             DataKey::Commitment store, None when absent;
\*   "unwrap": -> Commitment, read_commitment(&e, &id) of the ("Commit", id)
\*             store, panic!("Commitment not found") when absent.
\* flag: whether a record is returned
MergeSides == {"option", "unwrap"}

get_commitment_call(id, side) ==
    /\ ret' = IF side = "option"
              THEN RetFlag("get_commitment", id, "ok", get_commitment(id))
              ELSE IF read_commitment(id)
              THEN RetFlag("get_commitment", id, "ok", TRUE)
              ELSE RetFlag("get_commitment", id, "NotFound", FALSE)
    /\ UNCHANGED <<admin, initialized, allocators, commitments, commits,
                   balance, tracking, now, net, exited>>

(* ------------------- test harness: direct storage writes -------------- *)
\* Commitment records written under DataKey::Commitment(id)
SmallCommitments(id) ==
    { Commitment(id, "a1", CommitmentRules(1, 10, 10), 2, 0, 1, 2, st) :
        st \in {"active", "settled"} }

\* lib.rs set_commitment (first definition): persistent().set(DataKey::Commitment(id), c)
set_commitment(c) ==
    /\ c.commitment_id \notin DOMAIN commitments
    /\ commitments' = Put(commitments, c.commitment_id, c)
    /\ ret' = Ret("set_commitment", c.commitment_id, "-", "-", 0, "ok")
    /\ UNCHANGED <<admin, initialized, allocators, commits, balance, tracking,
                   now, net, exited>>

\* tests.rs store_commitment: persistent().set(("Commit", id), c)
store_commitment(c) ==
    /\ c.commitment_id \notin DOMAIN commits
    /\ commits' = Put(commits, c.commitment_id, c)
    /\ ret' = Ret("store_commitment", c.commitment_id, "-", "-", 0, "ok")
    /\ UNCHANGED <<admin, initialized, allocators, commitments, balance,
                   tracking, now, net, exited>>

\* the ledger timestamp, advanced by the host
Tick(bound) ==
    /\ now < bound
    /\ now' = now + 1
    /\ ret' = Ret("tick", "-", "-", "-", 0, "ok")
    /\ UNCHANGED <<admin, initialized, allocators, commitments, commits,
                   balance, tracking, net, exited>>

(* --------------------------- Allocation Ledger ------------------------ *)
\* transfer_ok: whether the asset contract's transfer call returns
transfer_asset_zero_passes(amount, transfer_ok) ==
    IF amount < 0 THEN "InvalidAmount"
    ELSE IF ~transfer_ok THEN "HostError"
    ELSE "ok"

transfer_asset_unchecked(amount, transfer_ok) ==
    IF amount <= 0 THEN "InvalidAmount" ELSE "ok"

transfer_asset(amount, transfer_ok) ==
    IF amount <= 0 THEN "InvalidAmount"
    ELSE IF ~transfer_ok THEN "HostError"
    ELSE "ok"

AllocBalance(b, amount) == b - amount

AllocTracking_prepend(t, id, pool, amount, timestamp) ==
    AllocationTracking(t.total_allocated + amount,
                       <<Allocation(id, pool, amount, timestamp)>> \o t.allocations)

AllocTracking(t, id, pool, amount, timestamp) ==
    AllocationTracking(t.total_allocated + amount,
                       Append(t.allocations, Allocation(id, pool, amount, timestamp)))

DeallocTotal_unclamped(total, amount) == total - amount

DeallocTotal_kept(total, amount) == total

DeallocTotal(total, amount) ==
    IF total - amount < 0 THEN 0 ELSE total - amount

DeallocBalance(b, amount) == b + amount

DeallocAllocations_pop(allocs) ==
    IF allocs = <<>> THEN allocs ELSE SubSeq(allocs, 1, Len(allocs) - 1)

DeallocAllocations(allocs) == allocs

InsufficientBalance_sign(b, amount) == b < 0

InsufficientBalance(b, amount) == b < amount

IsActive_any(c) == TRUE

IsActive(c) == c.status = "active"

\* the outcome of the invoke_contract call, when the call is made
TransferOutcome(amount, transfer_ok) ==
    IF amount <= 0 THEN "none"
    ELSE IF transfer_ok THEN "done" ELSE "failed"

\* the checks of allocate that come before the transfer
AllocateChecks(caller, id, amount) ==
    IF ~is_authorized_allocator(caller) THEN "Unauthorized"
    ELSE IF ~get_commitment(id) THEN "InactiveCommitment"
    ELSE IF ~IsActive(commitments[id]) THEN "InactiveCommitment"
    ELSE IF InsufficientBalance(get_commitment_balance(id), amount)
         THEN "InsufficientBalance"
    ELSE "ok"

\* the checks of deallocate that come before the transfer
DeallocateChecks(caller, id) ==
    IF ~is_authorized_allocator(caller) THEN "Unauthorized"
    ELSE IF ~get_commitment(id) THEN "InactiveCommitment"
    ELSE "ok"

\* caller_auth: whether the invocation carries caller's authorization; the
\* function never calls caller.require_auth(), so nothing depends on it
allocate(caller, caller_auth, id, pool, amount, transfer_ok) ==
    LET checks == AllocateChecks(caller, id, amount)
        result == IF checks # "ok" THEN checks
                  ELSE transfer_asset(amount, transfer_ok)
        transfer == IF checks # "ok" THEN "none"
                    ELSE TransferOutcome(amount, transfer_ok)
        t == get_allocation_tracking(id)
    IN /\ result = "ok" => Len(t.allocations) < MaxAllocs
       /\ ret' = [Ret("allocate", id, caller, pool, amount, result) EXCEPT
                    !.transfer = transfer,
                    !.auth = caller_auth,
                    !.before = IF result = "ok"
                               THEN [set |-> TRUE,
                                     balance |-> get_commitment_balance(id),
                                     total |-> t.total_allocated]
                               ELSE NoBefore]
       /\ IF result = "ok"
          THEN /\ set_commitment_balance(id, AllocBalance(get_commitment_balance(id), amount))
               /\ set_allocation_tracking(id, AllocTracking(t, id, pool, amount, now))
               /\ net' = [net EXCEPT ![id] = @ + amount]
          ELSE UNCHANGED <<balance, tracking, net>>
       /\ UNCHANGED <<admin, initialized, allocators, commitments, commits,
                      now, exited>>

deallocate(caller, caller_auth, id, pool, amount, transfer_ok) ==
    LET checks == DeallocateChecks(caller, id)
        result == IF checks # "ok" THEN checks
                  ELSE transfer_asset(amount, transfer_ok)
        transfer == IF checks # "ok" THEN "none"
                    ELSE TransferOutcome(amount, transfer_ok)
        t == get_allocation_tracking(id)
        \* the values before the allocate this call directly follows and undoes
        undoes == /\ result = "ok"
                  /\ ret.op = "allocate" /\ ret.result = "ok"
                  /\ ret.id = id /\ ret.amount = amount
    IN /\ result = "ok" => get_commitment_balance(id) + amount <= MaxBalance
       /\ ret' = [Ret("deallocate", id, caller, pool, amount, result) EXCEPT
                    !.transfer = transfer,
                    !.auth = caller_auth,
                    !.before = IF undoes THEN ret.before ELSE NoBefore]
       /\ IF result = "ok"
          THEN /\ set_commitment_balance(id,
                     DeallocBalance(get_commitment_balance(id), amount))
               /\ set_allocation_tracking(id,
                     AllocationTracking(DeallocTotal(t.total_allocated, amount),
                                        DeallocAllocations(t.allocations)))
               /\ net' = [net EXCEPT ![id] = @ - amount]
          ELSE UNCHANGED <<balance, tracking, net>>
       /\ UNCHANGED <<admin, initialized, allocators, commitments, commits,
                      now, exited>>

get_allocation_tracking_call_inserts(id) ==
    /\ ret' = [Ret("get_allocation_tracking", id, "-", "-", 0, "ok") EXCEPT
                 !.track = get_allocation_tracking(id)]
    /\ set_allocation_tracking(id, get_allocation_tracking(id))
    /\ UNCHANGED <<admin, initialized, allocators, commitments, commits,
                   balance, now, net, exited>>

\* pub fn get_allocation_tracking
get_allocation_tracking_call(id) ==
    /\ ret' = [Ret("get_allocation_tracking", id, "-", "-", 0, "ok") EXCEPT
                 !.track = get_allocation_tracking(id)]
    /\ UNCHANGED <<admin, initialized, allocators, commitments, commits,
                   balance, tracking, now, net, exited>>

(* ------------------------ Lifecycle (empty bodies) -------------------- *)
update_value_writes(id, new_value) ==
    /\ ret' = Ret("update_value", id, "-", "-", new_value, "ok")
    /\ commits' = [k \in DOMAIN commits |->
                     IF k = id
                     THEN [commits[k] EXCEPT
                             !.current_value = new_value,
                             !.status = IF new_value < commits[k].amount
                                           /\ ((commits[k].amount - new_value) * 100)
                                                \div commits[k].amount
                                              > commits[k].rules.max_loss_percent
                                        THEN "violated" ELSE @]
                     ELSE commits[k]]
    /\ UNCHANGED <<admin, initialized, allocators, commitments, balance,
                   tracking, now, net, exited>>

update_value(id, new_value) ==
    /\ ret' = Ret("update_value", id, "-", "-", new_value, "ok")
    /\ UNCHANGED <<admin, initialized, allocators, commitments, commits,
                   balance, tracking, now, net, exited>>

settle(id) ==
    /\ exited' = [exited EXCEPT ![id] = TRUE]
    /\ ret' = Ret("settle", id, "-", "-", 0, "ok")
    /\ UNCHANGED <<admin, initialized, allocators, commitments, commits,
                   balance, tracking, now, net>>

early_exit(id, caller) ==
    /\ exited' = [exited EXCEPT ![id] = TRUE]
    /\ ret' = Ret("early_exit", id, caller, "-", 0, "ok")
    /\ UNCHANGED <<admin, initialized, allocators, commitments, commits,
                   balance, tracking, now, net>>

(* --------------------------- Violation Engine ------------------------- *)
TruncDiv_floor(a, b) == a \div b

\* Rust's i128 `/` truncates toward zero; b > 0 wherever it is used
TruncDiv(a, b) == IF a >= 0 THEN a \div b ELSE -((-a) \div b)

LossPercent(c) ==
    IF c.amount > 0
    THEN TruncDiv((c.amount - c.current_value) * 100, c.amount)
    ELSE 0

LossViolated_inclusive(c) == LossPercent(c) >= c.rules.max_loss_percent

LossViolated(c) == LossPercent(c) > c.rules.max_loss_percent

DurationViolated_exclusive(c, current_time) == current_time > c.expires_at

DurationViolated(c, current_time) == current_time >= c.expires_at

check_violations_any_status(id) ==
    /\ ret' = IF ~read_commitment(id)
              THEN RetFlag("check_violations", id, "NotFound", FALSE)
              ELSE RetFlag("check_violations", id, "ok",
                           LossViolated(commits[id]) \/ DurationViolated(commits[id], now))
    /\ UNCHANGED <<admin, initialized, allocators, commitments, commits,
                   balance, tracking, now, net, exited>>

check_violations_marks(id) ==
    LET found == read_commitment(id) /\ commits[id].status = "active"
                 /\ (LossViolated(commits[id]) \/ DurationViolated(commits[id], now))
    IN /\ ret' = IF ~read_commitment(id)
                 THEN RetFlag("check_violations", id, "NotFound", FALSE)
                 ELSE RetFlag("check_violations", id, "ok", found)
       /\ commits' = IF found
                     THEN [commits EXCEPT ![id].status = "violated"]
                     ELSE commits
       /\ UNCHANGED <<admin, initialized, allocators, commitments, balance,
                      tracking, now, net, exited>>

check_violations(id) ==
    /\ ret' = IF ~read_commitment(id)
              THEN RetFlag("check_violations", id, "NotFound", FALSE)
              ELSE IF commits[id].status # "active"
              THEN RetFlag("check_violations", id, "ok", FALSE)
              ELSE RetFlag("check_violations", id, "ok",
                           LossViolated(commits[id]) \/ DurationViolated(commits[id], now))
    /\ UNCHANGED <<admin, initialized, allocators, commitments, commits,
                   balance, tracking, now, net, exited>>

get_violation_details(id) ==
    /\ ret' = IF ~read_commitment(id)
              THEN RetDetails("get_violation_details", id, "NotFound", NoDetails)
              ELSE LET c == commits[id]
                       loss_violated == LossViolated(c)
                       duration_violated == DurationViolated(c, now)
                   IN RetDetails("get_violation_details", id, "ok",
                        [has_violations |-> loss_violated \/ duration_violated,
                         loss_violated |-> loss_violated,
                         duration_violated |-> duration_violated,
                         loss_percent |-> LossPercent(c),
                         time_remaining |-> IF now < c.expires_at
                                            THEN c.expires_at - now ELSE 0])
    /\ UNCHANGED <<admin, initialized, allocators, commitments, commits,
                   balance, tracking, now, net, exited>>

\* Commitment records the violation engine is exercised on
EngineCommitments(id) ==
    { Commitment(id, "a1", CommitmentRules(2, m, 10), amt, 0, 2, cv, st) :
        amt \in {-10, 0, 7, 10}, cv \in {6, 8, 9, 10, 11},
        m \in {10, 14}, st \in Statuses }

(* --------------------------- specifications --------------------------- *)
Next ==
    \/ \E a \in Addr : initialize(a)
    \/ \E a \in AllocatorInputs, auth \in BOOLEAN : add_authorized_allocator(a, auth)
    \/ \E a \in AllocatorInputs, auth \in BOOLEAN : remove_authorized_allocator(a, auth)
    \/ \E i \in Ids : \E c \in SmallCommitments(i) : set_commitment(c)
    \/ \E i \in Ids : \E c \in SmallCommitments(i) : store_commitment(c)
    \/ Tick(MaxTime)
    \/ \E a \in Addr, i \in Ids, p \in Pools, m \in UnitAmounts, ok \in BOOLEAN :
          allocate(a, TRUE, i, p, m, ok)
    \/ \E a \in Addr, i \in Ids, p \in Pools, m \in UnitAmounts, ok \in BOOLEAN :
          deallocate(a, TRUE, i, p, m, ok)
    \/ \E i \in Ids, v \in 0 .. MaxAmount : update_value(i, v)
    \/ \E i \in Ids : settle(i)
    \/ \E i \in Ids, a \in Addr : early_exit(i, a)
    \/ \E i \in Ids : check_violations(i)
    \/ \E i \in Ids : get_violation_details(i)
    \/ \E a \in Addr : is_authorized_allocator_call(a)
    \/ \E o \in CreateOwners, m \in CreateAmounts, r \in CreateRules :
          create_commitment(o, m, r)
    \/ \E i \in Ids, side \in MergeSides : get_commitment_call(i, side)
    \/ \E i \in Ids : get_allocation_tracking_call(i)

Spec == Init /\ [][Next]_vars

\* the violation engine alone, over a wide range of stored commitments
NextV ==
    \/ \E i \in Ids : \E c \in EngineCommitments(i) : store_commitment(c)
    \/ Tick(MaxTimeV)
    \/ \E i \in Ids : check_violations(i)
    \/ \E i \in Ids : get_violation_details(i)

SpecV == Init /\ [][NextV]_vars

\* the allocation ledger and the registry alone: every amount up to
\* MaxAmount, and invocations that do and that do not carry the authorization
\* of the principal passed as caller (Spec explores unit amounts and the
\* invocations that carry it)
NextA ==
    \/ \E a \in Addr : initialize(a)
    \/ \E a \in AllocatorInputs, auth \in BOOLEAN : add_authorized_allocator(a, auth)
    \/ \E a \in AllocatorInputs, auth \in BOOLEAN : remove_authorized_allocator(a, auth)
    \/ \E i \in Ids : \E c \in SmallCommitments(i) : set_commitment(c)
    \/ Tick(MaxTime)
    \/ \E a \in Addr, auth \in BOOLEAN, i \in Ids, p \in Pools, m \in Amounts,
          ok \in BOOLEAN :
          allocate(a, auth, i, p, m, ok)
    \/ \E a \in Addr, auth \in BOOLEAN, i \in Ids, p \in Pools, m \in Amounts,
          ok \in BOOLEAN :
          deallocate(a, auth, i, p, m, ok)

SpecA == Init /\ [][NextA]_vars

\* two commitments side by side: the ledger of one while the other has a
\* ledger of its own
NextF ==
    \/ \E a \in Addr : initialize(a)
    \/ \E a \in AllocatorInputs : add_authorized_allocator(a, TRUE)
    \/ \E i \in FrameIds : \E c \in SmallCommitments(i) : set_commitment(c)
    \/ \E a \in AllocatorInputs, i \in FrameIds, p \in Pools, m \in UnitAmounts,
          ok \in BOOLEAN :
          allocate(a, TRUE, i, p, m, ok)
    \/ \E a \in AllocatorInputs, i \in FrameIds, p \in Pools, m \in UnitAmounts,
          ok \in BOOLEAN :
          deallocate(a, TRUE, i, p, m, ok)

SpecF == InitF /\ [][NextF]_vars

(* ------------------------------ claims -------------------------------- *)
Balance(id) == get_commitment_balance(id)

Total(id) == get_allocation_tracking(id).total_allocated

Allocations(id) == get_allocation_tracking(id).allocations

LedgerOk(r, op) == r.op = op /\ r.result = "ok"

\* C1: after a successful allocate or deallocate on a commitment, its free
\* balance plus total_allocated equals the commitment's deposited amount.
C1_FreePlusAllocatedIsAmount ==
    \A id \in DOMAIN commitments :
        (ret.id = id /\ (LedgerOk(ret, "allocate") \/ LedgerOk(ret, "deallocate")))
        => Balance(id) + Total(id) = commitments[id].amount

\* C2: total_allocated equals the sum of the amounts of the successful
\* allocate calls minus the sum of the amounts of the successful deallocate
\* calls on that commitment.
C2_TotalIsNetOfCalls ==
    \A id \in Ids : Total(id) = net[id]

\* C3: total_allocated is never negative, and a successful deallocate of a
\* sets it to max(0, total_allocated - a), also when a exceeds it.
C3_TotalNeverNegative ==
    [][ \A id \in Ids :
          /\ Total(id)' >= 0
          /\ (LedgerOk(ret', "deallocate") /\ ret'.id = id)
             => Total(id)' = IF Total(id) > ret'.amount
                             THEN Total(id) - ret'.amount ELSE 0 ]_vars

C3_Witness ==
    /\ LedgerOk(ret, "deallocate")
    /\ Total(ret.id) = 0
    /\ net[ret.id] < 0

\* C4: allocate and deallocate by a caller whose allow-list entry is not
\* true fail with Unauthorized and leave free balances and allocation
\* tracking unchanged, whether or not the commitment exists.
C4_UnlistedCallerRejected ==
    [][ (ret'.op \in {"allocate", "deallocate"}
         /\ \E c \in Addr : ret'.caller = c /\ allocators[c] # "true")
        => (ret'.result = "Unauthorized" /\ UNCHANGED <<balance, tracking>>) ]_vars

C4_Witness ==
    /\ ret.op = "allocate"
    /\ ret.result = "Unauthorized"
    /\ allocators[ret.caller] = "false"
    /\ ret.id \in DOMAIN commitments
    /\ commitments[ret.id].status = "active"
    /\ ret.amount > 0
    /\ Balance(ret.id) >= ret.amount

\* C5: once a commitment's status is settled, violated or early_exit, none
\* of update_value, settle, early_exit, allocate, deallocate and
\* check_violations changes it.
C5_TerminalStatusKept ==
    [][ ret'.op \in {"update_value", "settle", "early_exit", "allocate",
                     "deallocate", "check_violations"}
        => /\ \A id \in DOMAIN commits :
                commits[id].status \in Terminal
                => (id \in DOMAIN commits'
                    /\ commits'[id].status = commits[id].status)
           /\ \A id \in DOMAIN commitments :
                commitments[id].status \in Terminal
                => (id \in DOMAIN commitments'
                    /\ commitments'[id].status = commitments[id].status) ]_vars

C5_Witness ==
    /\ ret.op = "update_value"
    /\ ret.id \in DOMAIN commits
    /\ commits[ret.id].status \in Terminal
    /\ ret.amount < commits[ret.id].amount

\* C6: after the first successful settle or early_exit on a commitment,
\* every later settle or early_exit on it fails.
C6_ExitAtMostOnce ==
    [][ \A id \in Ids :
          (exited[id] /\ id \in DOMAIN commits
           /\ ret'.op \in {"settle", "early_exit"} /\ ret'.id = id)
          => ret'.result # "ok" ]_vars

\* C7: update_value(id, v) on an existing commitment sets current_value
\* to v and sets status to violated exactly when v < amount and the
\* truncated loss percentage (amount - v) * 100 / amount exceeds
\* rules.max_loss_percent; otherwise it leaves status unchanged.
C7_UpdateValueSetsValue ==
    [][ \A id \in DOMAIN commits :
          (ret'.op = "update_value" /\ ret'.id = id)
          => /\ id \in DOMAIN commits'
             /\ commits'[id].current_value = ret'.amount
             /\ commits'[id].status =
                  IF ret'.amount < commits[id].amount
                     /\ (commits[id].amount - ret'.amount) * 100
                          >= (commits[id].rules.max_loss_percent + 1) * commits[id].amount
                  THEN "violated" ELSE commits[id].status ]_vars

\* C8: for an active commitment that has not expired, check_violations
\* returns true exactly when the truncated quotient
\* (amount - current_value) * 100 / amount exceeds max_loss_percent, that
\* is when (amount - current_value) * 100 >= (max_loss_percent + 1) * amount;
\* with amount <= 0 it returns false.
C8_LossThresholdStrict ==
    (ret.op = "check_violations" /\ ret.id \in DOMAIN commits
     /\ commits[ret.id].status = "active" /\ now < commits[ret.id].expires_at)
    => LET c == commits[ret.id]
       IN /\ ret.result = "ok"
          /\ ret.flag = IF c.amount > 0
                        THEN (c.amount - c.current_value) * 100
                               >= (c.rules.max_loss_percent + 1) * c.amount
                        ELSE FALSE

C8_Witness ==
    /\ ret.op = "check_violations"
    /\ ret.id \in DOMAIN commits
    /\ commits[ret.id].status = "active"
    /\ now < commits[ret.id].expires_at
    /\ commits[ret.id].amount = 10
    /\ commits[ret.id].current_value = 9
    /\ commits[ret.id].rules.max_loss_percent = 10
    /\ ret.flag = FALSE

\* C9: for an active commitment without a loss violation, check_violations
\* returns true exactly when now >= expires_at.
C9_ExpiryInclusive ==
    (ret.op = "check_violations" /\ ret.id \in DOMAIN commits
     /\ commits[ret.id].status = "active"
     /\ (commits[ret.id].amount <= 0
         \/ (commits[ret.id].amount - commits[ret.id].current_value) * 100
              < (commits[ret.id].rules.max_loss_percent + 1) * commits[ret.id].amount))
    => /\ ret.result = "ok"
       /\ ret.flag = (now >= commits[ret.id].expires_at)

C9_Witness ==
    /\ ret.op = "check_violations"
    /\ ret.id \in DOMAIN commits
    /\ commits[ret.id].status = "active"
    /\ commits[ret.id].amount = 10
    /\ commits[ret.id].current_value = 10
    /\ now = commits[ret.id].expires_at
    /\ ret.flag = TRUE

\* C10: a successful allocate of a decreases the free balance by a,
\* increases total_allocated by a and appends one Allocation record
\* (id, pool, a, clock time) at the end of the allocations sequence.
C10_AllocateEffect ==
    [][ \A id \in Ids :
          (LedgerOk(ret', "allocate") /\ ret'.id = id)
          => /\ Balance(id)' = Balance(id) - ret'.amount
             /\ Total(id)' = Total(id) + ret'.amount
             /\ Allocations(id)' =
                  Append(Allocations(id),
                         [commitment_id |-> id, target_pool |-> ret'.pool,
                          amount |-> ret'.amount, timestamp |-> now]) ]_vars

C10_Witness ==
    /\ LedgerOk(ret, "allocate")
    /\ Len(Allocations(ret.id)) = 2
    /\ Allocations(ret.id)[1].timestamp < Allocations(ret.id)[2].timestamp

\* what the contract stores (everything but the recorded outcome and the
\* history counters)
stored == <<admin, initialized, allocators, commitments, commits, balance,
            tracking>>

\* C11 (as stated): every allocate with an amount greater than the free
\* balance fails with InsufficientBalance and changes no state.
C11_OverBalanceIsInsufficient ==
    [][ \A id \in Ids :
          (ret'.op = "allocate" /\ ret'.id = id /\ ret'.amount > Balance(id))
          => (ret'.result = "InsufficientBalance" /\ UNCHANGED stored) ]_vars

\* C11 (amended): every allocate with an amount greater than the free
\* balance fails and changes no state, with InsufficientBalance when the
\* caller is an authorized allocator and the commitment is stored and active;
\* the free balance of every commitment is never negative.
C11_OverBalanceFails ==
    [][ \A id \in Ids :
          /\ Balance(id)' >= 0
          /\ (ret'.op = "allocate" /\ ret'.id = id /\ ret'.amount > Balance(id))
             => /\ ret'.result # "ok"
                /\ UNCHANGED stored
                /\ (allocators[ret'.caller] = "true" /\ id \in DOMAIN commitments
                    /\ commitments[id].status = "active")
                   => ret'.result = "InsufficientBalance" ]_vars

C11_Witness ==
    /\ ret.op = "allocate"
    /\ ret.result = "InsufficientBalance"
    /\ ret.amount > Balance(ret.id)
    /\ Total(ret.id) > 0

\* C12: allocate by an authorized allocator fails with InactiveCommitment
\* when no commitment is stored under the id or the stored commitment is not
\* active, and changes no free balance and no allocation tracking.
C12_InactiveCommitmentRejected ==
    [][ \A id \in Ids :
          (ret'.op = "allocate" /\ ret'.id = id
           /\ allocators[ret'.caller] = "true"
           /\ (id \notin DOMAIN commitments
               \/ commitments[id].status # "active"))
          => (ret'.result = "InactiveCommitment"
              /\ UNCHANGED <<balance, tracking>>) ]_vars

C12_Witness ==
    /\ ret.op = "allocate"
    /\ ret.result = "InactiveCommitment"
    /\ ret.id \in DOMAIN commitments
    /\ commitments[ret.id].status = "settled"
    /\ ret.amount > 0
    /\ Balance(ret.id) >= ret.amount

\* C13: allocate and deallocate by an authorized allocator on an active
\* commitment with amount <= 0 fail with InvalidAmount and change no free
\* balance and no allocation tracking.
C13_NonPositiveAmountRejected ==
    [][ \A id \in Ids :
          (ret'.op \in {"allocate", "deallocate"} /\ ret'.id = id
           /\ allocators[ret'.caller] = "true"
           /\ id \in DOMAIN commitments
           /\ commitments[id].status = "active"
           /\ ret'.amount <= 0)
          => (ret'.result = "InvalidAmount"
              /\ UNCHANGED <<balance, tracking>>) ]_vars

C13_Witness ==
    /\ ret.op = "allocate"
    /\ ret.amount = 0
    /\ ret.result = "InvalidAmount"
    /\ Balance(ret.id) > 0

\* C14: when the asset transfer inside allocate or deallocate fails, the
\* call fails and free balance, total_allocated and allocations are as
\* before the call.
C14_FailedTransferAborts ==
    [][ (ret'.op \in {"allocate", "deallocate"} /\ ret'.transfer = "failed")
        => (ret'.result # "ok" /\ UNCHANGED <<balance, tracking>>) ]_vars

C14_Witness ==
    /\ ret.op = "deallocate"
    /\ ret.transfer = "failed"
    /\ ret.result = "HostError"
    /\ Total(ret.id) > 0

\* C15: a successful allocate of a immediately followed by a successful
\* deallocate of a on the same commitment restores free balance and
\* total_allocated to their values before the allocate.
C15_AllocateThenDeallocateRestores ==
    (LedgerOk(ret, "deallocate") /\ ret.before.set)
    => /\ Balance(ret.id) = ret.before.balance
       /\ Total(ret.id) = ret.before.total

C15_Witness ==
    /\ LedgerOk(ret, "deallocate")
    /\ ret.before.set
    /\ ret.amount = 1
    /\ ret.before.balance = 1
    /\ ret.before.total = 0
    /\ Balance(ret.id) = 1
    /\ Total(ret.id) = 0

\* C16: the allocations sequence of a commitment is append-only: a step
\* leaves it unchanged or adds one record at its end, and deallocate leaves
\* it unchanged.
C16_AllocationsAppendOnly ==
    [][ \A id \in Ids :
          /\ \/ Allocations(id)' = Allocations(id)
             \/ /\ Len(Allocations(id)') = Len(Allocations(id)) + 1
                /\ SubSeq(Allocations(id)', 1, Len(Allocations(id)))
                     = Allocations(id)
          /\ (ret'.op = "deallocate" /\ ret'.id = id)
             => Allocations(id)' = Allocations(id) ]_vars

C16_Witness ==
    /\ LedgerOk(ret, "deallocate")
    /\ Len(Allocations(ret.id)) = 2

SetOps == {"add_authorized_allocator", "remove_authorized_allocator"}

\* C17: once initialize has succeeded, every later initialize fails with
\* AlreadyInitialized and leaves the admin and the allow-list unchanged, and
\* no operation reassigns the admin.
C17_InitializeOnce ==
    [][ initialized
        => /\ initialized'
           /\ admin' = admin
           /\ ret'.op = "initialize"
              => (ret'.result = "AlreadyInitialized"
                  /\ UNCHANGED allocators) ]_vars

C17_Witness ==
    /\ ret.op = "initialize"
    /\ ret.result = "AlreadyInitialized"
    /\ admin # NoAdmin
    /\ ret.caller # admin

\* C18: the allow-list changes only in an add / remove_authorized_allocator
\* call that carries the stored admin's authorization; a call without it
\* fails (with the host's authorization error) and leaves the allow-list
\* unchanged, and while initialize has not succeeded no principal is an
\* authorized allocator.
C18_AllowListAdminOnly ==
    [][ /\ allocators' # allocators
           => (ret'.op \in SetOps /\ ret'.result = "ok" /\ ret'.auth
               /\ initialized)
        /\ (ret'.op \in SetOps /\ ~ret'.auth)
           => /\ ret'.result # "ok"
              /\ initialized => ret'.result = "AuthError"
              /\ UNCHANGED allocators
        /\ ~initialized' => \A p \in Addr : ~is_authorized_allocator(p)' ]_vars

C18_Witness ==
    /\ ret.op = "remove_authorized_allocator"
    /\ ~ret.auth
    /\ ret.result = "AuthError"
    /\ allocators[ret.caller] = "true"

\* C19: is_authorized_allocator(p) is false while p was never set and
\* otherwise is the value of the last successful add (true) or remove
\* (false) for p; an add or remove that repeats the stored value succeeds
\* and leaves the stored state as it was.
C19_AllowListLastWriteWins ==
    /\ \A p \in Addr : ~is_authorized_allocator(p)
    /\ [][ \A p \in Addr :
             LET set == ret'.op \in SetOps /\ ret'.result = "ok"
                        /\ ret'.caller = p
             IN /\ (set /\ ret'.op = "add_authorized_allocator")
                   => is_authorized_allocator(p)'
                /\ (set /\ ret'.op = "remove_authorized_allocator")
                   => ~is_authorized_allocator(p)'
                /\ ~set => (is_authorized_allocator(p)'
                            = is_authorized_allocator(p))
                /\ (ret'.op = "is_authorized_allocator" /\ ret'.caller = p)
                   => ret'.flag = is_authorized_allocator(p)
                /\ (ret'.op \in SetOps /\ ret'.caller = p /\ ret'.auth
                    /\ allocators[p] = (IF ret'.op = "add_authorized_allocator"
                                        THEN "true" ELSE "false"))
                   => (ret'.result = "ok" /\ UNCHANGED stored) ]_vars

C19_Witness ==
    /\ ret.op = "is_authorized_allocator"
    /\ ret.flag = FALSE
    /\ allocators[ret.caller] = "false"

\* C20: create_commitment with amount > 0, duration_days > 0 and
\* max_loss_percent <= 100 succeeds and stores under the returned id a record
\* with status active, current_value = amount and
\* expires_at = created_at + duration_days * 86400.
C20_CreateStoresActiveRecord ==
    (ret.op = "create_commitment" /\ ret.amount > 0
     /\ ret.rules.duration_days > 0 /\ ret.rules.max_loss_percent <= 100)
    => /\ ret.result = "ok"
       /\ \E store \in {commits, commitments} :
            /\ ret.id \in DOMAIN store
            /\ store[ret.id].status = "active"
            /\ store[ret.id].amount = ret.amount
            /\ store[ret.id].current_value = ret.amount
            /\ store[ret.id].expires_at
                 = store[ret.id].created_at + ret.rules.duration_days * 86400

\* C21: create_commitment with amount <= 0, or duration_days = 0, or
\* max_loss_percent > 100 fails with InvalidAmount or InvalidRules and
\* persists no commitment record.
C21_InvalidCreateRejected ==
    [][ (ret'.op = "create_commitment"
         /\ (ret'.amount <= 0 \/ ret'.rules.duration_days = 0
             \/ ret'.rules.max_loss_percent > 100))
        => (ret'.result \in {"InvalidAmount", "InvalidRules"}
            /\ UNCHANGED <<commits, commitments>>) ]_vars

\* the records stored under an id, in either store
Records(id) ==
    (IF id \in DOMAIN commits THEN {commits[id]} ELSE {})
    \cup (IF id \in DOMAIN commitments THEN {commitments[id]} ELSE {})

\* C22: settle on a stored commitment with now < expires_at fails with
\* NotExpired and leaves status and current_value unchanged; settle on an
\* active commitment with now >= expires_at sets its status to settled.
C22_SettleOnlyAtMaturity ==
    [][ \A id \in Ids :
          (ret'.op = "settle" /\ ret'.id = id)
          => \A c \in Records(id) :
               /\ now < c.expires_at
                  => (ret'.result = "NotExpired" /\ ret'.transfer = "none"
                      /\ UNCHANGED <<commits, commitments>>)
               /\ (now >= c.expires_at /\ c.status = "active")
                  => \A d \in Records(id)' : d.status = "settled" ]_vars

\* C23: early_exit by a caller other than the commitment's owner fails with
\* Unauthorized, and early_exit on a commitment that is not active fails; in
\* both cases status and current_value are unchanged.
C23_EarlyExitOwnerOnly ==
    [][ \A id \in Ids :
          (ret'.op = "early_exit" /\ ret'.id = id)
          => \A c \in Records(id) :
               /\ ret'.caller # c.owner
                  => (ret'.result = "Unauthorized"
                      /\ UNCHANGED <<commits, commitments>>)
               /\ c.status # "active"
                  => (ret'.result # "ok"
                      /\ UNCHANGED <<commits, commitments>>) ]_vars

\* C24: a successful early_exit by the owner on an active commitment with
\* current value v and penalty rate p sets current_value to
\* v - floor(v * p / 100) and status to early_exit.
C24_EarlyExitAppliesPenalty ==
    [][ \A id \in Ids :
          (LedgerOk(ret', "early_exit") /\ ret'.id = id)
          => \A c \in Records(id) :
               (ret'.caller = c.owner /\ c.status = "active")
               => \A d \in Records(id)' :
                    /\ d.status = "early_exit"
                    /\ d.current_value
                         = c.current_value
                           - ((c.current_value * c.rules.early_exit_penalty) \div 100)
          ]_vars

\* C25: check_violations returns false for every stored commitment whose
\* status is not active, whatever its loss and whatever the current time.
C25_ResolvedNeverViolates ==
    (ret.op = "check_violations" /\ ret.id \in DOMAIN commits
     /\ commits[ret.id].status # "active")
    => (ret.result = "ok" /\ ret.flag = FALSE)

C25_Witness ==
    /\ ret.op = "check_violations"
    /\ ret.id \in DOMAIN commits
    /\ commits[ret.id].status = "settled"
    /\ commits[ret.id].amount = 10
    /\ commits[ret.id].current_value = 6
    /\ commits[ret.id].rules.max_loss_percent = 10
    /\ now >= commits[ret.id].expires_at
    /\ ret.flag = FALSE

\* q is the quotient n / d rounded toward zero, for d > 0
IsTruncQuotient(q, n, d) ==
    IF n >= 0
    THEN q >= 0 /\ q * d <= n /\ n < (q + 1) * d
    ELSE q <= 0 /\ (-q) * d <= -n /\ -n < (1 - q) * d

\* C26: for every stored commitment, whatever its status,
\* get_violation_details returns loss_percent = the truncating quotient
\* (amount - current_value) * 100 / amount (0 when amount <= 0),
\* loss_violated = (loss_percent > max_loss_percent),
\* duration_violated = (now >= expires_at), has_violations = loss_violated
\* or duration_violated and time_remaining = max(0, expires_at - now); for an
\* active commitment has_violations is what check_violations returns in the
\* same state.
C26_DetailsComputed ==
    [][ /\ (ret'.op = "get_violation_details" /\ ret'.id \in DOMAIN commits)
           => LET c == commits[ret'.id]
                  d == ret'.details
              IN /\ ret'.result = "ok"
                 /\ IF c.amount > 0
                    THEN IsTruncQuotient(d.loss_percent,
                                         (c.amount - c.current_value) * 100,
                                         c.amount)
                    ELSE d.loss_percent = 0
                 /\ d.loss_violated = (d.loss_percent > c.rules.max_loss_percent)
                 /\ d.duration_violated = (now >= c.expires_at)
                 /\ d.has_violations = (d.loss_violated \/ d.duration_violated)
                 /\ d.time_remaining
                      = IF c.expires_at - now > 0 THEN c.expires_at - now ELSE 0
        /\ (ret'.op = "check_violations" /\ ret.op = "get_violation_details"
            /\ ret'.id = ret.id /\ ret.id \in DOMAIN commits
            /\ commits[ret.id].status = "active")
           => (ret'.result = "ok" /\ ret'.flag = ret.details.has_violations)
      ]_vars

C26_Witness ==
    /\ ret.op = "get_violation_details"
    /\ ret.id \in DOMAIN commits
    /\ commits[ret.id].status = "settled"
    /\ commits[ret.id].amount = 7
    /\ commits[ret.id].current_value = 8
    /\ ret.details.loss_percent = -14
    /\ ret.details.duration_violated
    /\ ret.details.has_violations
    /\ ret.details.time_remaining = 0

ReadOps == {"check_violations", "get_violation_details",
            "get_allocation_tracking", "is_authorized_allocator"}

\* C27: check_violations, get_violation_details, get_allocation_tracking and
\* is_authorized_allocator are pure reads: a call leaves every commitment
\* record, every free balance, every allocation tracking record and the
\* registry unchanged.
C27_ReadsArePure ==
    [][ ret'.op \in ReadOps => UNCHANGED stored ]_vars

C27_Witness ==
    /\ ret.op = "check_violations"
    /\ ret.flag = TRUE
    /\ ret.id \in DOMAIN commits
    /\ commits[ret.id].status = "active"

\* C28: get_commitment, check_violations and get_violation_details called
\* with an id under which no commitment is stored fail with NotFound.
C28_AbsentIsNotFound ==
    (ret.op \in {"get_commitment", "check_violations", "get_violation_details"}
     /\ Records(ret.id) = {})
    => ret.result = "NotFound"

\* C29: get_allocation_tracking never fails; for an id with no tracking
\* record (also an id with no commitment) it returns total_allocated = 0 and
\* an empty allocations sequence, and the call creates no record.
C29_TrackingReadDefaults ==
    [][ \A id \in Ids :
          (ret'.op = "get_allocation_tracking" /\ ret'.id = id)
          => /\ ret'.result = "ok"
             /\ id \notin DOMAIN tracking
                => /\ ret'.track.total_allocated = 0
                   /\ ret'.track.allocations = <<>>
                   /\ id \notin DOMAIN tracking'
             /\ id \in DOMAIN tracking => ret'.track = tracking[id]
             /\ tracking' = tracking ]_vars

C29_Witness ==
    /\ ret.op = "get_allocation_tracking"
    /\ ret.result = "ok"
    /\ ret.id \notin DOMAIN tracking
    /\ Records(ret.id) = {}
    /\ ret.track.total_allocated = 0
    /\ ret.track.allocations = <<>>

\* C30: allocate and deallocate succeed only when the invocation carries the
\* authorization of the principal passed as caller: an invocation that
\* passes an allow-listed allocator as caller without that allocator's
\* authorization fails with Unauthorized and moves no funds.
C30_CallerMustProveControl ==
    (ret.op \in {"allocate", "deallocate"} /\ ~ret.auth)
    => /\ ret.result # "ok"
       /\ ret.transfer # "done"
       /\ allocators[ret.caller] = "true" => ret.result = "Unauthorized"

\* C31: allocate and deallocate on commitment id c leave the Commitment
\* record of c unchanged, leave the free balance and the allocation tracking
\* of every other commitment unchanged, and leave the registry unchanged.
C31_LedgerFrame ==
    [][ \A id \in FrameIds :
          (ret'.op \in {"allocate", "deallocate"} /\ ret'.id = id)
          => /\ UNCHANGED <<commitments, commits>>
             /\ UNCHANGED <<admin, initialized, allocators>>
             /\ \A o \in FrameIds \ {id} :
                  /\ (o \in DOMAIN balance') = (o \in DOMAIN balance)
                  /\ (o \in DOMAIN tracking') = (o \in DOMAIN tracking)
                  /\ Balance(o)' = Balance(o)
                  /\ get_allocation_tracking(o)' = get_allocation_tracking(o)
      ]_vars

C31_Witness ==
    /\ LedgerOk(ret, "allocate")
    /\ ret.id = "c1"
    /\ Balance("c2") = 1
    /\ Len(Allocations("c2")) = 1
    /\ Len(Allocations("c1")) = 1

\* C32: all operations read commitments from one store: for every id the
\* commitment check_violations / get_violation_details / get_commitment can
\* read is the commitment allocate and deallocate see, so an authorized
\* allocate fails for a missing commitment exactly when check_violations fails
\* with NotFound.
C32_OneCommitmentStore ==
    \A id \in Ids :
        /\ read_commitment(id) = get_commitment(id)
        /\ (read_commitment(id) /\ get_commitment(id))
           => commits[id] = commitments[id]
        /\ (ret.id = id /\ ret.op = "allocate" /\ allocators[ret.caller] = "true"
            /\ ~read_commitment(id))
           => ret.result = "InactiveCommitment"
        /\ (ret.id = id /\ ret.op = "check_violations" /\ ~get_commitment(id))
           => ret.result = "NotFound"

====
